---- MODULE Spec2Model ----
(***************************************************************************)
(* streamchat (rust_03/src/main.rs): Diffie-Hellman style handshake, LCG   *)
(* keystream, XOR stream cipher and the duplex chat loop of two peers      *)
(* ("server", is_server = true, and "client", is_server = false) over one  *)
(* TCP connection.                                                         *)
(*                                                                         *)
(* TLC integers are 32 bits wide.  u64 values that the program multiplies  *)
(* (the LCG state) are therefore kept as 8 little-endian byte limbs, and   *)
(* the handshake runs with a small modulus P in place of the 64-bit one    *)
(* (mod_pow multiplies in u128, so it never overflows and is exact for     *)
(* every modulus).                                                         *)
(***************************************************************************)
EXTENDS Integers, Sequences, FiniteSets, TLC

VARIABLES
    \* main thread of each peer: where it is in main / dh_key_exchange / handle_chat
    pc,
    \* receive thread of each peer (start_chat_thread)
    rpc,
    \* dh_key_exchange locals
    private_key, public_key, their_public,
    \* what dh_key_exchange returned
    shared_secret,
    \* the connection: chan[p] holds the bytes p wrote that the peer has not
    \* read yet; shut_rd/shut_wr are the halves p's socket has shut down;
    \* broken is a connection that failed or was reset
    chan, shut_rd, shut_wr, broken,
    \* handle_chat: the two generators and the two position counters
    send_keystream, recv_keystream, send_keystream_pos, recv_keystream_pos,
    \* history: key bytes pulled per direction, plaintext sent and received,
    \* write_all calls of the send loop, handshake bytes written, why the
    \* send loop and the receive loop ended
    send_keys, recv_keys, sent_plain, recv_plain, nwrites, hs_sent,
    exit_cause, recv_exit,
    \* the console of each peer has reached end of file: every later read_line
    \* returns no bytes
    stdin_eof,
    \* the harness of the pure functions: which function, its inputs, its results
    mode, inp, out

dhVars     == <<private_key, public_key, their_public, shared_secret, hs_sent>>
connVars   == <<chan, shut_rd, shut_wr, broken>>
sendVars   == <<send_keystream, send_keystream_pos, send_keys, sent_plain,
                nwrites, exit_cause, stdin_eof>>
recvVars   == <<recv_keystream, recv_keystream_pos, recv_keys, recv_plain,
                recv_exit>>
pureVars   == <<mode, inp, out>>
protoVars  == <<pc, rpc, dhVars, connVars, sendVars, recvVars>>
vars       == <<protoVars, pureVars>>

\* ------------------------------------------------------------------ bounds
\* Handshake modulus of the model (main.rs:9 sets 0xD87F_AE3E_291B_4C7F).
P == 97
\* Private keys are drawn from 0..MaxPriv in DhSpec.
MaxPriv == 16
\* mod_pow inputs of ModPowSpec: base 0..MaxBase, exponent 0..MaxExp,
\* modulus 0..MaxMod (and the spec's 1000).
MaxBase == 7
MaxExp == 10
MaxMod == 12
\* KeystreamSpec: seeds 0..MaxSeed (and three wide ones), MaxKs bytes per
\* generator.
MaxSeed == 3
MaxKs == 5
\* PeriodSpec: bytes pulled from one generator beyond the first 2^8.
MaxPeriodTail == 4
\* XorSpec: messages of at most MaxLen bytes, encrypted after 0..MaxSkip bytes
\* of the keystream were already pulled.
MaxLen == 2
MaxSkip == 2
\* Chat writes (write_all calls of the send loops) of a session, both peers
\* together: in Spec, and in FairSpec.
MaxSends == 2
MaxFairSends == 1

\* ------------------------------------------------------- program constants
G == 2
LCG_A == 1103515245
LCG_C == 12345
\* LCG_M = 1 << LCG_M_SHIFT
LCG_M_SHIFT == 32
BUFFER_SIZE == 1024

Min(a, b) == IF a < b THEN a ELSE b

\* F applied to the value of v: the value is computed once, however often F
\* reads it (a LET is computed again at each use when TLC evaluates ENABLED).
With(v, F(_)) == CHOOSE r \in {F(x) : x \in {v}} : TRUE

\* ------------------------------------------------------------ u8 and u64
RECURSIVE XorBits(_, _, _)
XorBits(a, b, n) ==
    IF n = 0 THEN 0
    ELSE (((a % 2) + (b % 2)) % 2) + 2 * XorBits(a \div 2, b \div 2, n - 1)

\* A wrapping add in place of the XOR.
XorByte_add(a, b) == (a + b) % 256

\* byte ^ key_byte on u8
XorByte(a, b) == XorBits(a, b, 8)

Limbs == 1..8

\* A u64 as 8 little-endian bytes; n is a value below 2^31.
U64(n) ==
    [i \in Limbs |->
        CASE i = 1 -> n % 256
          [] i = 2 -> (n \div 256) % 256
          [] i = 3 -> (n \div 65536) % 256
          [] i = 4 -> (n \div 16777216) % 256
          [] OTHER -> 0]

RECURSIVE SumProd(_, _, _, _)
SumProd(a, b, k, i) ==
    IF i = 0 THEN 0 ELSE a[i] * b[k + 1 - i] + SumProd(a, b, k, i - 1)

\* Carry propagation over columns k..8; what carries out of limb 8 is lost.
RECURSIVE Normalize(_, _, _)
Normalize(cols, k, carry) ==
    IF k > 8 THEN <<>>
    ELSE With(cols[k] + carry,
              LAMBDA t : <<t % 256>> \o Normalize(cols, k + 1, t \div 256))

\* u64::wrapping_mul
wrapping_mul(a, b) ==
    Normalize([k \in Limbs |-> SumProd(a, b, k, k)], 1, 0)

\* u64::wrapping_add
wrapping_add(a, b) ==
    Normalize([k \in Limbs |-> a[k] + b[k]], 1, 0)

\* x % LCG_M: the low LCG_M_SHIFT bits
ModLcgM(x) == [i \in Limbs |-> IF 8 * i <= LCG_M_SHIFT THEN x[i] ELSE 0]

LcgA == U64(LCG_A)
LcgC == U64(LCG_C)

\* (x & 0xFF) as u8
LowByte(x) == x[1]

\* u64::to_be_bytes of a value below 2^31
to_be_bytes(n) == [i \in Limbs |-> U64(n)[9 - i]]

RECURSIVE BeValue(_, _)
BeValue(bytes, k) ==
    IF k = 0 THEN 0 ELSE bytes[k] + 256 * BeValue(bytes, k - 1)

\* u64::from_be_bytes
from_be_bytes(bytes) == BeValue(bytes, 8)

\* ------------------------------------------------------------------ mod_pow
\* A slip in the loop body: the base is squared before the multiply.
RECURSIVE ModPowLoop_sqfirst(_, _, _, _)
ModPowLoop_sqfirst(result, base_128, exponent, modulus) ==
    IF exponent > 0
    THEN ModPowLoop_sqfirst(IF exponent % 2 = 1
                                THEN (result * ((base_128 * base_128) % modulus)) % modulus
                                ELSE result,
                            (base_128 * base_128) % modulus,
                            exponent \div 2,
                            modulus)
    ELSE result

\* The while loop of mod_pow: one iteration per exponent bit, low bit first.
RECURSIVE ModPowLoop(_, _, _, _)
ModPowLoop(result, base_128, exponent, modulus) ==
    IF exponent > 0
    THEN ModPowLoop(IF exponent % 2 = 1
                        THEN (result * base_128) % modulus
                        ELSE result,
                    (base_128 * base_128) % modulus,
                    exponent \div 2,
                    modulus)
    ELSE result

mod_pow(base, exponent, modulus) ==
    IF modulus = 0 THEN 0
    ELSE ModPowLoop(1, base % modulus, exponent, modulus)

\* ------------------------------------------------------------ lcg_keystream
\* A generator is its current_state (a u64 in limbs).  lcg_keystream(seed) is
\* the freshly constructed generator: current_state = seed.
lcg_keystream(seed) == seed

\* The recurrence without its increment.
KeystreamNext_noC(current_state) ==
    With(current_state, LAMBDA s :
    With(wrapping_mul(LcgA, s), LAMBDA prod : ModLcgM(prod)))

\* The closure body: the state after one next().
KeystreamNext(current_state) ==
    With(current_state, LAMBDA s :
    With(wrapping_mul(LcgA, s), LAMBDA prod :
    With(wrapping_add(prod, LcgC), LAMBDA sum : ModLcgM(sum))))

\* The second byte of the state returned: (current_state >> 8) & 0xFF.
KeystreamByte_second(new_state) == new_state[2]

\* The byte that next() returns, given the state it left.
KeystreamByte(new_state) == LowByte(new_state)

\* ---------------------------------------------------------------- xor_cipher
\* Returns the ciphertext, the key trace and the generator as it is left.
\* keystream_pos is a parameter the function never reads.
RECURSIVE xor_cipher(_, _, _)
xor_cipher(data, keystream, keystream_pos) ==
    IF data = <<>>
    THEN [cipher_bytes |-> <<>>, key_bytes |-> <<>>, keystream |-> keystream]
    ELSE With(KeystreamNext(keystream), LAMBDA st :
         With(KeystreamByte(st), LAMBDA key_byte :
         With(xor_cipher(Tail(data), st, keystream_pos), LAMBDA rest :
            [cipher_bytes |-> <<XorByte(Head(data), key_byte)>> \o rest.cipher_bytes,
             key_bytes    |-> <<key_byte>> \o rest.key_bytes,
             keystream    |-> rest.keystream])))

\* Every chunk decrypted from a copy of the generator: the receive generator
\* itself is never advanced.
DecryptChunk_copy(cipher_bytes, keystream_guard) ==
    With(xor_cipher(cipher_bytes, keystream_guard, 0), LAMBDA r :
        [plain_bytes |-> r.cipher_bytes,
         key_bytes   |-> r.key_bytes,
         keystream   |-> keystream_guard])

\* The receive loop's own XOR of a chunk (start_chat_thread, Ok(bytes_read)).
RECURSIVE DecryptChunk(_, _)
DecryptChunk(cipher_bytes, keystream_guard) ==
    IF cipher_bytes = <<>>
    THEN [plain_bytes |-> <<>>, key_bytes |-> <<>>, keystream |-> keystream_guard]
    ELSE With(KeystreamNext(keystream_guard), LAMBDA st :
         With(KeystreamByte(st), LAMBDA key_byte :
         With(DecryptChunk(Tail(cipher_bytes), st), LAMBDA rest :
            [plain_bytes |-> <<XorByte(Head(cipher_bytes), key_byte)>> \o rest.plain_bytes,
             key_bytes   |-> <<key_byte>> \o rest.key_bytes,
             keystream   |-> rest.keystream])))

\* ------------------------------------------------------------- console input
\* str::trim on the bytes of a line (ASCII white space).
IsSpace(b) == b \in {9, 10, 11, 12, 13, 32}

RECURSIVE TrimStart(_)
TrimStart(s) ==
    IF s # <<>> /\ IsSpace(Head(s)) THEN TrimStart(Tail(s)) ELSE s

RECURSIVE TrimEnd(_)
TrimEnd(s) ==
    IF s # <<>> /\ IsSpace(s[Len(s)]) THEN TrimEnd(SubSeq(s, 1, Len(s) - 1)) ELSE s

Trim(s) == TrimEnd(TrimStart(s))

\* Console lines the operator can enter, as read_line returns them: "quit",
\* " quit " (trims to quit), an empty line, end of file (no bytes), "A",
\* " hi" and a line that is not UTF-8.
ConsoleLines ==
    { <<113, 117, 105, 116, 10>>,
      <<32, 113, 117, 105, 116, 32, 10>>,
      <<10>>,
      <<>>,
      <<65, 10>>,
      <<32, 104, 105, 10>>,
      <<255, 10>> }

QUIT == <<113, 117, 105, 116>>

\* read_line fails with InvalidData on bytes that are not UTF-8.  The lines of
\* the model are ASCII or hold 0xFF, which no UTF-8 text contains.
ReadLineFails(line) == \E i \in 1..Len(line) : line[i] >= 128

\* ------------------------------------------------------------------- peers
Peers == {"server", "client"}
Other(p) == IF p = "server" THEN "client" ELSE "server"

\* main passes true from Commands::Server and false from Commands::Client.
is_server(p) == p = "server"

\* rng.gen(): in the chat specification the server draws 6 and the client 15
\* (the pair of the handshake example); the handshake specification draws
\* every pair of 0..MaxPriv.
ChatPrivKeys(p) == IF p = "server" THEN {6} ELSE {15}
DhPrivKeys(p) == 0..MaxPriv

\* A local that has not been assigned yet.
NoValue == 0 - 1

ProtoInit ==
    /\ pc = [p \in Peers |-> "dh_start"]
    /\ rpc = [p \in Peers |-> "not_spawned"]
    /\ private_key = [p \in Peers |-> NoValue]
    /\ public_key = [p \in Peers |-> NoValue]
    /\ their_public = [p \in Peers |-> NoValue]
    /\ shared_secret = [p \in Peers |-> NoValue]
    /\ hs_sent = [p \in Peers |-> 0]
    /\ chan = [p \in Peers |-> <<>>]
    /\ shut_rd = [p \in Peers |-> FALSE]
    /\ shut_wr = [p \in Peers |-> FALSE]
    /\ broken = FALSE
    /\ send_keystream = [p \in Peers |-> U64(0)]
    /\ recv_keystream = [p \in Peers |-> U64(0)]
    /\ send_keystream_pos = [p \in Peers |-> 0]
    /\ recv_keystream_pos = [p \in Peers |-> 0]
    /\ send_keys = [p \in Peers |-> <<>>]
    /\ recv_keys = [p \in Peers |-> <<>>]
    /\ sent_plain = [p \in Peers |-> <<>>]
    /\ recv_plain = [p \in Peers |-> <<>>]
    /\ nwrites = [p \in Peers |-> 0]
    /\ exit_cause = [p \in Peers |-> "none"]
    /\ stdin_eof = [p \in Peers |-> FALSE]
    /\ recv_exit = [p \in Peers |-> "none"]

\* ----------------------------------------------------------- the connection
\* A write on p's socket fails once the connection is broken or p shut its
\* write half.
WriteFails(p) == broken \/ shut_wr[p]

\* The peer no longer reads: what p writes is dropped and answered by a reset.
WriteIsReset(p) == shut_rd[Other(p)]

\* A blocked read of p returns 0 bytes: nothing is buffered and either the
\* peer shut its write half or p shut its own read half.
ReadSeesEof(p) ==
    /\ chan[Other(p)] = <<>>
    /\ (shut_wr[Other(p)] \/ shut_rd[p])

\* ---------------------------------------------------------- dh_key_exchange
\* Both parties read before they write.
WritesFirst_never(p) == FALSE

\* The branch on is_server: which party writes before it reads.
WritesFirst(p) == is_server(p)

\* The I/O error of the handshake dropped: the exchange goes on to the secret.
AfterHandshakeError_ignore(p) == "dh_done"

\* `?` on write_all / read_exact: dh_key_exchange returns the error.
AfterHandshakeError(p) == "dh_err"

\* read_exact fails: the connection failed, or the peer closed before 8 bytes
\* came.
DhReadFails(p) == broken \/ (Len(chan[Other(p)]) < 8 /\ shut_wr[Other(p)])

\* private_key = rng.gen(); public_key = mod_pow(G, private_key, P)
DhGenerate(p, keys) ==
    /\ pc[p] = "dh_start"
    /\ \E k \in keys :
         /\ private_key' = [private_key EXCEPT ![p] = k]
         /\ public_key' = [public_key EXCEPT ![p] = mod_pow(G, k, P)]
    /\ pc' = [pc EXCEPT ![p] = IF WritesFirst(p) THEN "dh_write" ELSE "dh_read"]
    /\ UNCHANGED <<rpc, their_public, shared_secret, hs_sent, connVars,
                   sendVars, recvVars, pureVars>>

\* stream.write_all(&public_bytes)?
DhWrite(p) ==
    /\ pc[p] = "dh_write"
    /\ IF WriteFails(p)
       THEN /\ pc' = [pc EXCEPT ![p] = AfterHandshakeError(p)]
            /\ UNCHANGED <<hs_sent, connVars>>
       ELSE /\ pc' = [pc EXCEPT ![p] = IF WritesFirst(p) THEN "dh_read" ELSE "dh_done"]
            /\ hs_sent' = [hs_sent EXCEPT ![p] = @ + 8]
            /\ IF WriteIsReset(p)
               THEN /\ broken' = TRUE
                    /\ UNCHANGED <<chan, shut_rd, shut_wr>>
               ELSE /\ chan' = [chan EXCEPT ![p] = @ \o to_be_bytes(public_key[p])]
                    /\ UNCHANGED <<shut_rd, shut_wr, broken>>
    /\ UNCHANGED <<rpc, private_key, public_key, their_public, shared_secret,
                   sendVars, recvVars, pureVars>>

\* stream.read_exact(&mut their_public_bytes)? : blocks until 8 bytes are there
DhRead(p) ==
    /\ pc[p] = "dh_read"
    /\ \/ /\ ~broken
          /\ Len(chan[Other(p)]) >= 8
          /\ their_public' = [their_public EXCEPT ![p] =
                                from_be_bytes(SubSeq(chan[Other(p)], 1, 8))]
          /\ chan' = [chan EXCEPT ![Other(p)] = SubSeq(@, 9, Len(@))]
          /\ pc' = [pc EXCEPT ![p] = IF WritesFirst(p) THEN "dh_done" ELSE "dh_write"]
       \/ /\ DhReadFails(p)
          /\ pc' = [pc EXCEPT ![p] = AfterHandshakeError(p)]
          /\ UNCHANGED <<their_public, chan>>
    /\ UNCHANGED <<rpc, private_key, public_key, shared_secret, hs_sent,
                   shut_rd, shut_wr, broken, sendVars, recvVars, pureVars>>

\* The secret computed from g in place of the peer's public value.
SharedSecret_fromG(their, priv) == mod_pow(G, priv, P)

\* The secret as dh_key_exchange computes it from the peer's public value.
SharedSecret(their, priv) == mod_pow(their, priv, P)

\* shared_secret = mod_pow(their_public, private_key, P); Ok(shared_secret)
DhFinish(p) ==
    /\ pc[p] = "dh_done"
    /\ shared_secret' = [shared_secret EXCEPT ![p] =
                            SharedSecret(their_public[p], private_key[p])]
    /\ pc' = [pc EXCEPT ![p] = "chat_start"]
    /\ UNCHANGED <<rpc, private_key, public_key, their_public, hs_sent,
                   connVars, sendVars, recvVars, pureVars>>

dh_key_exchange(p, keys) ==
    \/ DhGenerate(p, keys)
    \/ DhWrite(p)
    \/ DhRead(p)
    \/ DhFinish(p)

\* -------------------------------------------------------------- handle_chat
\* A send generator seeded apart by role (secret + 1 on the server).
SendSeed_perRole(p) == shared_secret[p] + (IF is_server(p) THEN 1 ELSE 0)

\* The seed of the send generator: lcg_keystream(shared_secret), line 176.
SendSeed(p) == shared_secret[p]

\* The seed of the receive generator: lcg_keystream(shared_secret), line 177.
RecvSeed(p) == shared_secret[p]

\* Lines 172-201: both generators are seeded with the shared secret, both
\* positions start at 0, and the receive thread is spawned.
HandleChatStart(p) ==
    /\ pc[p] = "chat_start"
    /\ send_keystream' = [send_keystream EXCEPT ![p] = lcg_keystream(U64(SendSeed(p)))]
    /\ recv_keystream' = [recv_keystream EXCEPT ![p] = lcg_keystream(U64(RecvSeed(p)))]
    /\ send_keystream_pos' = [send_keystream_pos EXCEPT ![p] = 0]
    /\ recv_keystream_pos' = [recv_keystream_pos EXCEPT ![p] = 0]
    /\ rpc' = [rpc EXCEPT ![p] = "reading"]
    /\ pc' = [pc EXCEPT ![p] = "send_loop"]
    /\ UNCHANGED <<dhVars, connVars, send_keys, sent_plain, nwrites,
                   exit_cause, stdin_eof, recv_keys, recv_plain, recv_exit,
                   pureVars>>

\* A comparison that never matches (the line compared with its newline).
IsQuit_never(msg) == FALSE

\* if message == "quit" { break; }
IsQuit(msg) == msg = QUIT

\* if message.is_empty() { continue; }
IsEmptyLine(msg) == msg = <<>>

\* read_line(&mut message)? fails: handle_chat returns the error at once.
SendConsoleError(p, line) ==
    /\ ReadLineFails(line)
    /\ pc' = [pc EXCEPT ![p] = "returned_err"]
    /\ exit_cause' = [exit_cause EXCEPT ![p] = "console_err"]
    /\ UNCHANGED <<send_keystream, send_keystream_pos, send_keys, sent_plain,
                   nwrites, stdin_eof, connVars>>

\* read_line returned Ok(0): no bytes, not even the newline.
IsEof(line) == line = <<>>

\* End of file taken as the end of the session: break.
AfterEof_break(p) == "shutdown"

\* End of file gives an empty message like an empty line: continue.
AfterEof(p) == "send_loop"

\* An empty line (or end of file): continue.
SendEmpty(p, line) ==
    /\ ~ReadLineFails(line)
    /\ IsEmptyLine(Trim(line))
    /\ pc' = [pc EXCEPT ![p] = IF IsEof(line) THEN AfterEof(p) ELSE @]
    /\ stdin_eof' = [stdin_eof EXCEPT ![p] = @ \/ IsEof(line)]
    /\ UNCHANGED <<send_keystream, send_keystream_pos, send_keys,
                   sent_plain, nwrites, exit_cause, connVars>>

\* quit: break.
SendQuit(p, line) ==
    /\ ~ReadLineFails(line)
    /\ ~IsEmptyLine(Trim(line))
    /\ IsQuit(Trim(line))
    /\ pc' = [pc EXCEPT ![p] = "shutdown"]
    /\ exit_cause' = [exit_cause EXCEPT ![p] = "quit"]
    /\ UNCHANGED <<send_keystream, send_keystream_pos, send_keys, sent_plain,
                   nwrites, stdin_eof, connVars>>

\* The position counts messages in place of bytes.
AdvanceSendPos_one(pos, plain_bytes) == pos + 1

\* *pos_guard += plain_bytes.len()
AdvanceSendPos(pos, plain_bytes) == pos + Len(plain_bytes)

\* The write error returned to the caller with `?` in place of the break.
AfterWriteError_return(p) == "returned_err"

\* Err(e) of write_all: "Failed to send message" and break, to the shutdown.
AfterWriteError(p) == "shutdown"

\* Lines 217-240: encrypt under the two locks, then write_all the ciphertext.
SendMessage(p, line, cap) ==
    /\ ~ReadLineFails(line)
    /\ ~IsEmptyLine(Trim(line))
    /\ ~IsQuit(Trim(line))
    /\ nwrites[p] + nwrites[Other(p)] < cap
    /\ \E plain_bytes \in {Trim(line)} :
       \E r \in {xor_cipher(plain_bytes, send_keystream[p], send_keystream_pos[p])} :
           /\ send_keystream' = [send_keystream EXCEPT ![p] = r.keystream]
           /\ send_keystream_pos' = [send_keystream_pos EXCEPT ![p] =
                                        AdvanceSendPos(@, plain_bytes)]
           /\ send_keys' = [send_keys EXCEPT ![p] = @ \o r.key_bytes]
           /\ sent_plain' = [sent_plain EXCEPT ![p] = @ \o plain_bytes]
           /\ nwrites' = [nwrites EXCEPT ![p] = @ + 1]
           /\ UNCHANGED stdin_eof
           /\ IF WriteFails(p)
              THEN /\ pc' = [pc EXCEPT ![p] = AfterWriteError(p)]
                   /\ exit_cause' = [exit_cause EXCEPT ![p] = "write_err"]
                   /\ UNCHANGED connVars
              ELSE /\ UNCHANGED <<pc, exit_cause>>
                   /\ IF WriteIsReset(p)
                      THEN /\ broken' = TRUE
                           /\ UNCHANGED <<chan, shut_rd, shut_wr>>
                      ELSE /\ chan' = [chan EXCEPT ![p] = @ \o r.cipher_bytes]
                           /\ UNCHANGED <<shut_rd, shut_wr, broken>>

\* One iteration of the send loop (lines 206-241) on the console line `line`;
\* cap bounds the writes of the session.
SendLoopOn(p, line, cap) ==
    /\ pc[p] = "send_loop"
    /\ stdin_eof[p] => IsEof(line)
    /\ \/ SendConsoleError(p, line)
       \/ SendEmpty(p, line)
       \/ SendQuit(p, line)
       \/ SendMessage(p, line, cap)
    /\ UNCHANGED <<rpc, dhVars, recvVars, pureVars>>

SendLoop(p, cap) == \E line \in ConsoleLines : SendLoopOn(p, line, cap)

\* Shutdown::Write in place of Shutdown::Both.
ShutdownBoth_writeOnly(p) ==
    /\ shut_wr' = [shut_wr EXCEPT ![p] = TRUE]
    /\ UNCHANGED shut_rd

\* let _ = stream_write.shutdown(Shutdown::Both)
ShutdownBoth(p) ==
    /\ shut_rd' = [shut_rd EXCEPT ![p] = TRUE]
    /\ shut_wr' = [shut_wr EXCEPT ![p] = TRUE]

Shutdown(p) ==
    /\ pc[p] = "shutdown"
    /\ ShutdownBoth(p)
    /\ pc' = [pc EXCEPT ![p] = "join"]
    /\ UNCHANGED <<rpc, dhVars, chan, broken, sendVars, recvVars, pureVars>>

\* let _ = recv_thread.join(); Ok(())
Join(p) ==
    /\ pc[p] = "join"
    /\ rpc[p] = "done"
    /\ pc' = [pc EXCEPT ![p] = "returned_ok"]
    /\ UNCHANGED <<rpc, dhVars, connVars, sendVars, recvVars, pureVars>>

\* ---------------------------------------------------------- start_chat_thread
\* *pos_guard += bytes_read
AdvanceRecvPos(pos, bytes_read) == pos + bytes_read

\* Ok(bytes_read): the transport hands over any non-empty prefix of what is
\* buffered, at most BUFFER_SIZE bytes; the chunk is decrypted under the locks.
RecvData(p) ==
    /\ rpc[p] = "reading"
    /\ ~broken
    /\ chan[Other(p)] # <<>>
    /\ \E bytes_read \in 1..Min(Len(chan[Other(p)]), BUFFER_SIZE) :
         \E r \in {DecryptChunk(SubSeq(chan[Other(p)], 1, bytes_read), recv_keystream[p])} :
             /\ recv_keystream' = [recv_keystream EXCEPT ![p] = r.keystream]
             /\ recv_keys' = [recv_keys EXCEPT ![p] = @ \o r.key_bytes]
             /\ recv_plain' = [recv_plain EXCEPT ![p] = @ \o r.plain_bytes]
             /\ recv_keystream_pos' = [recv_keystream_pos EXCEPT ![p] =
                                          AdvanceRecvPos(@, bytes_read)]
             /\ chan' = [chan EXCEPT ![Other(p)] = SubSeq(@, bytes_read + 1, Len(@))]
    /\ UNCHANGED <<pc, rpc, dhVars, shut_rd, shut_wr, broken, sendVars,
                   recv_exit, pureVars>>

\* Ok(0): "Peer disconnected." and break.
RecvEof(p) ==
    /\ rpc[p] = "reading"
    /\ ~broken \/ shut_rd[p]
    /\ ReadSeesEof(p) \/ (broken /\ shut_rd[p])
    /\ rpc' = [rpc EXCEPT ![p] = "done"]
    /\ recv_exit' = [recv_exit EXCEPT ![p] = "eof"]
    /\ UNCHANGED <<pc, dhVars, connVars, sendVars, recv_keystream,
                   recv_keystream_pos, recv_keys, recv_plain, pureVars>>

\* Err(e): "Error reading stream" and break.
RecvErr(p) ==
    /\ rpc[p] = "reading"
    /\ broken
    /\ ~shut_rd[p]
    /\ rpc' = [rpc EXCEPT ![p] = "done"]
    /\ recv_exit' = [recv_exit EXCEPT ![p] = "err"]
    /\ UNCHANGED <<pc, dhVars, connVars, sendVars, recv_keystream,
                   recv_keystream_pos, recv_keys, recv_plain, pureVars>>

start_chat_thread(p) == RecvData(p) \/ RecvEof(p) \/ RecvErr(p)

\* ----------------------------------------------------------------------- main
\* main returns the error of dh_key_exchange or handle_chat and the process
\* ends: its socket is closed and a receive thread still running ends with it.
\* (After handle_chat returned Ok the socket is already shut down in both
\* directions and the receive thread joined: the exit changes nothing.)
MainExit(p) ==
    /\ pc[p] \in {"dh_err", "returned_err"}
    /\ pc' = [pc EXCEPT ![p] = "exited"]
    /\ rpc' = [rpc EXCEPT ![p] = IF @ = "reading" THEN "killed" ELSE @]
    /\ ShutdownBoth(p)
    /\ UNCHANGED <<dhVars, chan, broken, sendVars, recvVars, pureVars>>

\* The environment: the connection fails (peer unreachable, reset).
ConnectionFailure ==
    /\ ~broken
    /\ \E p \in Peers : pc[p] \notin {"returned_ok", "exited"}
    /\ broken' = TRUE
    /\ UNCHANGED <<pc, rpc, dhVars, chan, shut_rd, shut_wr, sendVars, recvVars,
                   pureVars>>

\* ------------------------------------------------------------- specifications
PureIdle ==
    /\ mode = "chat"
    /\ inp = <<>>
    /\ out = <<>>

Init == ProtoInit /\ PureIdle

Next ==
    \/ \E p \in Peers : dh_key_exchange(p, ChatPrivKeys(p))
    \/ \E p \in Peers : HandleChatStart(p)
    \/ \E p \in Peers : SendLoop(p, MaxSends)
    \/ \E p \in Peers : Shutdown(p)
    \/ \E p \in Peers : Join(p)
    \/ \E p \in Peers : start_chat_thread(p)
    \/ \E p \in Peers : MainExit(p)
    \/ ConnectionFailure

Spec == Init /\ [][Next]_vars

\* The same session with at most MaxFairSends chat writes.
FairNext ==
    \/ \E p \in Peers : dh_key_exchange(p, ChatPrivKeys(p))
    \/ \E p \in Peers : HandleChatStart(p)
    \/ \E p \in Peers : SendLoop(p, MaxFairSends)
    \/ \E p \in Peers : Shutdown(p)
    \/ \E p \in Peers : Join(p)
    \/ \E p \in Peers : start_chat_thread(p)
    \/ \E p \in Peers : MainExit(p)
    \/ ConnectionFailure

\* ------------------------------------------------ the pure functions on their own
\* mod_pow on every base, exponent and modulus of the bounds.
ModPowInputs ==
    [base : 0..MaxBase, exponent : 0..MaxExp, modulus : (0..MaxMod) \cup {1000}]

ModPowInit ==
    /\ ProtoInit
    /\ mode = "mod_pow"
    /\ inp \in ModPowInputs
    /\ out = <<>>

ModPowCall ==
    /\ mode = "mod_pow"
    /\ out = <<>>
    /\ out' = <<mod_pow(inp.base, inp.exponent, inp.modulus)>>
    /\ UNCHANGED <<protoVars, mode, inp>>

ModPowSpec == ModPowInit /\ [][ModPowCall]_vars

\* Two generators built from one seed, each advanced on its own.
KsSeeds ==
    {U64(n) : n \in 0..MaxSeed}
        \cup {<<5, 0, 0, 0, 0, 1, 0, 0>>,
              <<255, 255, 255, 127, 0, 0, 0, 0>>,
              <<255, 255, 255, 255, 255, 255, 255, 255>>}

KsInit ==
    /\ ProtoInit
    /\ mode = "keystream"
    /\ inp \in KsSeeds
    /\ out = [g1 |-> lcg_keystream(inp), g2 |-> lcg_keystream(inp),
              o1 |-> <<>>, o2 |-> <<>>, h1 |-> <<>>, h2 |-> <<>>]

\* next() on the first generator: o1 collects the bytes, h1 the states the
\* calls started from.
KsNext1 ==
    /\ mode = "keystream"
    /\ Len(out.o1) < MaxKs
    /\ out' = [out EXCEPT !.g1 = KeystreamNext(out.g1),
                          !.o1 = @ \o <<KeystreamByte(KeystreamNext(out.g1))>>,
                          !.h1 = @ \o <<out.g1>>]
    /\ UNCHANGED <<protoVars, mode, inp>>

KsNext2 ==
    /\ mode = "keystream"
    /\ Len(out.o2) < MaxKs
    /\ out' = [out EXCEPT !.g2 = KeystreamNext(out.g2),
                          !.o2 = @ \o <<KeystreamByte(KeystreamNext(out.g2))>>,
                          !.h2 = @ \o <<out.g2>>]
    /\ UNCHANGED <<protoVars, mode, inp>>

KeystreamSpec == KsInit /\ [][KsNext1 \/ KsNext2]_vars

\* xor_cipher on a message after some keystream bytes were pulled, then the
\* receive side's XOR with a second generator of the same seed at the same
\* position.
XorBytes == {0, 65, 90, 255}

XorData ==
    UNION {[1..n -> XorBytes] : n \in 0..MaxLen}

XorInit ==
    /\ ProtoInit
    /\ mode = "xor"
    /\ inp \in [data : XorData, seed : {U64(0), U64(47), <<5, 0, 0, 0, 0, 1, 0, 0>>},
                 skip : 0..MaxSkip]
    /\ out = [send |-> lcg_keystream(inp.seed), recv |-> lcg_keystream(inp.seed),
              send_pos |-> 0, recv_pos |-> 0, enc |-> <<>>, dec |-> <<>>]

\* An earlier byte goes through the send side: one next().
XorSkipSend ==
    /\ mode = "xor"
    /\ out.send_pos < inp.skip
    /\ out' = [out EXCEPT !.send = KeystreamNext(@), !.send_pos = @ + 1]
    /\ UNCHANGED <<protoVars, mode, inp>>

XorSkipRecv ==
    /\ mode = "xor"
    /\ out.recv_pos < inp.skip
    /\ out' = [out EXCEPT !.recv = KeystreamNext(@), !.recv_pos = @ + 1]
    /\ UNCHANGED <<protoVars, mode, inp>>

XorEncrypt ==
    /\ mode = "xor"
    /\ out.send_pos = inp.skip
    /\ out.enc = <<>>
    /\ LET r == xor_cipher(inp.data, out.send, out.send_pos)
       IN  out' = [out EXCEPT !.enc = <<r>>, !.send = r.keystream,
                              !.send_pos = @ + Len(inp.data)]
    /\ UNCHANGED <<protoVars, mode, inp>>

XorDecrypt ==
    /\ mode = "xor"
    /\ out.recv_pos = inp.skip
    /\ out.enc # <<>>
    /\ out.dec = <<>>
    /\ LET r == DecryptChunk(out.enc[1].cipher_bytes, out.recv)
       IN  out' = [out EXCEPT !.dec = <<r>>, !.recv = r.keystream,
                              !.recv_pos = @ + Len(out.enc[1].cipher_bytes)]
    /\ UNCHANGED <<protoVars, mode, inp>>

XorSpec ==
    XorInit /\ [][XorSkipSend \/ XorSkipRecv \/ XorEncrypt \/ XorDecrypt]_vars

\* One lcg_keystream(seed) generator pulled 2^8 + MaxPeriodTail times: o
\* collects the bytes in order.
PeriodInit ==
    /\ ProtoInit
    /\ mode = "period"
    /\ inp \in KsSeeds
    /\ out = [g |-> lcg_keystream(inp), o |-> <<>>]

PeriodNext ==
    /\ mode = "period"
    /\ Len(out.o) < 2 ^ 8 + MaxPeriodTail
    /\ \E st \in {KeystreamNext(out.g)} :
          out' = [g |-> st, o |-> out.o \o <<KeystreamByte(st)>>]
    /\ UNCHANGED <<protoVars, mode, inp>>

PeriodSpec == PeriodInit /\ [][PeriodNext]_vars

\* The steps the scheduler runs on its own.  Console input (SendLoop) and
\* ConnectionFailure come from outside and may never happen.
Fairness ==
    \A p \in Peers :
        /\ WF_vars(dh_key_exchange(p, ChatPrivKeys(p)))
        /\ WF_vars(HandleChatStart(p))
        /\ WF_vars(Shutdown(p))
        /\ WF_vars(Join(p))
        /\ WF_vars(start_chat_thread(p))
        /\ WF_vars(MainExit(p))

FairSpec == Init /\ [][FairNext]_vars /\ Fairness

\* The handshake alone, for every pair of private keys of 0..MaxPriv.
DhNext ==
    \/ \E p \in Peers : dh_key_exchange(p, DhPrivKeys(p))
    \/ \E p \in Peers : MainExit(p)
    \/ ConnectionFailure

DhSpec == Init /\ [][DhNext]_vars

DhFairSpec ==
    DhSpec /\ \A p \in Peers : WF_vars(dh_key_exchange(p, DhPrivKeys(p)))

\* ----------------------------------------------------------------- properties
\* C1 (handshake agreement): whenever both dh_key_exchange calls have returned
\* Ok, the two shared secrets are equal, whatever the two private keys; and for
\* p = 97, g = 2, a = 6, b = 15 the public values are 64 and 79 and both sides
\* obtain 47.
C1_HandshakeAgreement ==
    /\ (\A p \in Peers : shared_secret[p] # NoValue)
          => /\ shared_secret["server"] = shared_secret["client"]
             /\ shared_secret["server"] =
                   mod_pow(mod_pow(G, private_key["client"], P), private_key["server"], P)
             /\ shared_secret["client"] =
                   mod_pow(mod_pow(G, private_key["server"], P), private_key["client"], P)
    /\ mod_pow(2, 6, 97) = 64
    /\ mod_pow(2, 15, 97) = 79
    /\ mod_pow(79, 6, 97) = 47
    /\ mod_pow(64, 15, 97) = 47

C1_Witness ==
    /\ private_key["server"] = 6
    /\ private_key["client"] = 15
    /\ public_key["server"] = 64
    /\ their_public["server"] = 79
    /\ shared_secret["server"] = 47
    /\ shared_secret["client"] = 47

\* C2 (handshake ordering): each party writes nothing or exactly the 8 bytes
\* of its public value, and unless the connection fails both dh_key_exchange
\* calls eventually return Ok, each having written 8 bytes.
C2_HandshakeCompletes ==
    /\ [](\A p \in Peers : hs_sent[p] \in {0, 8})
    /\ <>(broken \/ \A p \in Peers : shared_secret[p] # NoValue /\ hs_sent[p] = 8)

C2_Witness ==
    /\ ~broken
    /\ \A p \in Peers : shared_secret[p] # NoValue /\ hs_sent[p] = 8
    /\ \A p \in Peers : chan[p] = <<>>

\* C7 (XOR round trip): the receive side's XOR of the ciphertext of
\* xor_cipher, with a generator of the same seed at the same position, gives
\* back the message; ciphertext and key trace have the length of the input; and
\* 0x41 under key byte 0x5A is 0x1B and back.
C7_XorRoundTrip ==
    /\ out.enc # <<>>
          => /\ Len(out.enc[1].cipher_bytes) = Len(inp.data)
             /\ Len(out.enc[1].key_bytes) = Len(inp.data)
    /\ out.dec # <<>>
          => /\ out.dec[1].plain_bytes = inp.data
             /\ out.dec[1].key_bytes = out.enc[1].key_bytes
    /\ XorByte(65, 90) = 27
    /\ XorByte(27, 90) = 65

C7_Witness ==
    /\ out.dec # <<>>
    /\ inp.skip = 2
    /\ Len(inp.data) = 2
    /\ out.enc[1].cipher_bytes # inp.data
    /\ out.dec[1].plain_bytes = inp.data

\* The low 8 bits of (A * state + C) mod 2^32 depend on the low 8 bits of
\* state alone.
LowByteOfStep(state) == ((LCG_A % 256) * LowByte(state) + LCG_C) % 256

\* C8 (keystream determinism): two generators built from one seed give the
\* same byte at every index both have produced, and every byte is the low 8
\* bits of (A * state + C) mod 2^32 of the state the call started from; one
\* step from state 0 is C and from state 1 is A + C.
C8_KeystreamDeterminism ==
    /\ \A i \in 1..Min(Len(out.o1), Len(out.o2)) : out.o1[i] = out.o2[i]
    /\ \A i \in 1..Len(out.o1) : out.o1[i] = LowByteOfStep(out.h1[i])
    /\ \A i \in 1..Len(out.o2) : out.o2[i] = LowByteOfStep(out.h2[i])
    /\ \A i \in 5..8 : Len(out.o1) > 0 => out.g1[i] = 0
    /\ KeystreamNext(U64(0)) = U64(LCG_C)
    /\ KeystreamNext(U64(1)) = U64(LCG_A + LCG_C)

C8_Witness ==
    /\ inp = <<5, 0, 0, 0, 0, 1, 0, 0>>
    /\ Len(out.o1) = MaxKs
    /\ Len(out.o2) = MaxKs
    /\ out.o1 = out.o2
    /\ SubSeq(out.o1, 1, 4) = <<90, 139, 104, 129>>

RECURSIVE NaivePowMod(_, _, _)
\* base^exponent mod modulus by repeated multiplication.
NaivePowMod(base, exponent, modulus) ==
    IF exponent = 0 THEN 1 % modulus
    ELSE ((base % modulus) * NaivePowMod(base, exponent - 1, modulus)) % modulus

\* C9 (modular exponentiation): for every modulus > 1 the result is
\* base^exponent mod modulus and is below the modulus, exponent 0 gives 1,
\* mod_pow(2, 10, 1000) is 24, and modulus 0 gives 0.
C9_ModPowCorrect ==
    /\ (out # <<>> /\ inp.modulus > 1)
          => /\ out[1] = NaivePowMod(inp.base, inp.exponent, inp.modulus)
             /\ out[1] < inp.modulus
             /\ inp.exponent = 0 => out[1] = 1
    /\ (out # <<>> /\ inp.modulus = 0) => out[1] = 0
    /\ mod_pow(2, 10, 1000) = 24

C9_Witness ==
    /\ inp = [base |-> 2, exponent |-> 10, modulus |-> 1000]
    /\ out = <<24>>

\* C3 (shutdown propagation), as claimed: the receive loop that reads 0 bytes
\* because the peer closed shuts down both directions of the connection.
C3_RecvEofShutsDown ==
    [][\A p \in Peers :
          (RecvEof(p) /\ ~shut_rd[p]) => (shut_rd'[p] /\ shut_wr'[p])]_vars

\* C4 (quit semantics): a send loop iteration on a line that trims to quit
\* leaves the loop for the shutdown, writes nothing and pulls no keystream
\* byte: connection, write count, send generator, send position and key trace
\* are unchanged.
C4_QuitWritesNothing ==
    [][\A p \in Peers : \A line \in ConsoleLines :
          (Trim(line) = QUIT /\ SendLoopOn(p, line, MaxSends))
             => /\ pc'[p] = "shutdown"
                /\ exit_cause'[p] = "quit"
                /\ UNCHANGED <<chan, broken, nwrites, sent_plain>>
                /\ UNCHANGED <<send_keystream, send_keystream_pos, send_keys>>]_vars

C4_Witness ==
    /\ exit_cause["server"] = "quit"
    /\ pc["server"] = "shutdown"
    /\ nwrites["server"] = 1
    /\ send_keystream_pos["server"] = 2
    /\ Len(chan["server"]) = 2

\* C5 (local quit cancellation): once the send loop has ended on quit,
\* handle_chat eventually returns Ok with both directions shut down and the
\* receive loop ended.
C5_QuitReturns ==
    \A p \in Peers :
        (pc[p] = "shutdown" /\ exit_cause[p] = "quit")
            ~> (pc[p] = "returned_ok" /\ rpc[p] = "done" /\ shut_rd[p] /\ shut_wr[p])

\* The server quit and returned while the client never sent nor closed.
C5_Witness ==
    /\ exit_cause["server"] = "quit"
    /\ pc["server"] = "returned_ok"
    /\ recv_exit["server"] = "eof"
    /\ recv_keystream_pos["server"] = 0
    /\ pc["client"] = "send_loop"
    /\ nwrites["client"] = 0
    /\ ~broken

RECURSIVE Pull(_, _)
\* n calls of next() on a generator: the bytes of positions 0..n-1 from it, in
\* order, and the generator as it is left.
Pull(generator, n) ==
    IF n = 0
    THEN [key_bytes |-> <<>>, keystream |-> generator]
    ELSE With(KeystreamNext(generator), LAMBDA st :
         With(Pull(st, n - 1), LAMBDA rest :
            [key_bytes |-> <<KeystreamByte(st)>> \o rest.key_bytes,
             keystream |-> rest.keystream]))

\* One direction at rest: the position is the number of key bytes pulled and
\* of payload bytes handled, and at position 0 the generator is the fresh one
\* of the seed.
DirectionCounts(seed, generator, pos, keys, payload) ==
    /\ pos = Len(keys)
    /\ pos = Len(payload)
    /\ pos = 0 => generator = lcg_keystream(seed)

\* One direction across a step: the position does not decrease, and the key
\* bytes added are the next pos2 - pos bytes of the generator as it stood, which
\* is left right after them (positions pos..pos2-1, adjacent to those before).
DirectionContinues(generator, pos, keys, generator2, pos2, keys2) ==
    /\ pos2 >= pos
    /\ \E r \in {Pull(generator, pos2 - pos)} :
          /\ generator2 = r.keystream
          /\ keys2 = keys \o r.key_bytes

\* C6 (position monotonicity, no key reuse): in each direction the position
\* equals the number of key bytes pulled from the generator, starts at 0 on
\* the fresh generator and never decreases, and every step that moves it from
\* pos to pos2 pulls exactly keystream positions pos..pos2-1 (so messages of
\* lengths L1 then L2 use [0, L1) and [L1, L1+L2)).
C6_PositionNoReuse ==
    /\ [](\A p \in Peers :
            rpc[p] # "not_spawned"
               => /\ DirectionCounts(U64(shared_secret[p]), send_keystream[p],
                                     send_keystream_pos[p], send_keys[p], sent_plain[p])
                  /\ DirectionCounts(U64(shared_secret[p]), recv_keystream[p],
                                     recv_keystream_pos[p], recv_keys[p], recv_plain[p]))
    /\ [][\A p \in Peers :
            rpc[p] # "not_spawned"
               => /\ DirectionContinues(send_keystream[p], send_keystream_pos[p],
                                        send_keys[p], send_keystream'[p],
                                        send_keystream_pos'[p], send_keys'[p])
                  /\ DirectionContinues(recv_keystream[p], recv_keystream_pos[p],
                                        recv_keys[p], recv_keystream'[p],
                                        recv_keystream_pos'[p], recv_keys'[p])]_vars

\* The server sent two messages (3 bytes) and the client has read them.
C6_Witness ==
    /\ nwrites["server"] = 2
    /\ send_keystream_pos["server"] = 3
    /\ recv_keystream_pos["client"] = 3
    /\ send_keys["server"] = Pull(lcg_keystream(U64(shared_secret["server"])), 3).key_bytes
    /\ recv_keys["client"] = send_keys["server"]

\* C10 (join before return), as claimed: when handle_chat has returned after
\* the receive thread was spawned, the receive loop has ended.
C10_JoinedAtReturn ==
    \A p \in Peers :
        pc[p] \in {"returned_ok", "returned_err"} => rpc[p] = "done"

\* C11 (chat write failure ends the session): a send loop iteration whose
\* write_all fails makes that one write attempt, leaves the connection as it
\* is and goes to the shutdown; no write is attempted after it, and from the
\* shutdown handle_chat eventually returns Ok with both directions shut down
\* and the receive loop ended.
C11_WriteFailureCloses ==
    /\ [][\A p \in Peers : \A line \in ConsoleLines :
            /\ (/\ WriteFails(p)
                /\ ~ReadLineFails(line)
                /\ ~IsEmptyLine(Trim(line))
                /\ ~IsQuit(Trim(line))
                /\ SendLoopOn(p, line, MaxFairSends))
                  => /\ pc'[p] = "shutdown"
                     /\ exit_cause'[p] = "write_err"
                     /\ nwrites'[p] = nwrites[p] + 1
                     /\ UNCHANGED connVars
            /\ exit_cause[p] = "write_err"
                  => /\ nwrites'[p] = nwrites[p]
                     /\ pc'[p] \in {"shutdown", "join", "returned_ok"}]_vars
    /\ \A p \in Peers :
          (pc[p] = "shutdown" /\ exit_cause[p] = "write_err")
             ~> (/\ pc[p] = "returned_ok"
                 /\ rpc[p] = "done"
                 /\ shut_rd[p]
                 /\ shut_wr[p])

\* The server's write failed on a broken connection and handle_chat returned
\* Ok; nothing of the message reached the connection.
C11_Witness ==
    /\ exit_cause["server"] = "write_err"
    /\ pc["server"] = "returned_ok"
    /\ rpc["server"] = "done"
    /\ broken
    /\ nwrites["server"] = 1
    /\ chan["server"] = <<>>

\* dh_key_exchange of p returned an error, or main has exited on it.
HandshakeFailed(p) ==
    \/ pc[p] = "dh_err"
    \/ pc[p] = "exited" /\ exit_cause[p] = "none"

\* C12 (handshake I/O failure is fatal): a failing write or read of the public
\* value makes dh_key_exchange return the error; from then on the party has no
\* shared secret, never enters handle_chat (no receive thread, no chat write,
\* no keystream byte) and never goes back to the exchange: its only step is
\* the exit of main, and it sends no further handshake byte.
C12_HandshakeFailureFatal ==
    /\ [](\A p \in Peers :
            HandshakeFailed(p)
               => /\ shared_secret[p] = NoValue
                  /\ rpc[p] = "not_spawned"
                  /\ nwrites[p] = 0
                  /\ send_keystream_pos[p] = 0
                  /\ recv_keystream_pos[p] = 0)
    /\ [][\A p \in Peers :
            /\ (pc[p] = "dh_write" /\ WriteFails(p) /\ pc'[p] # pc[p])
                  => pc'[p] = "dh_err"
            /\ (pc[p] = "dh_read" /\ DhReadFails(p) /\ pc'[p] # pc[p])
                  => pc'[p] = "dh_err"
            /\ HandshakeFailed(p)
                  => /\ HandshakeFailed(p)'
                     /\ hs_sent'[p] = hs_sent[p]
                     /\ chan'[p] = chan[p]]_vars

\* The client's read of the server's public value failed and the client has
\* exited without a secret, while the server had sent its 8 bytes.
C12_Witness ==
    /\ pc["client"] = "exited"
    /\ exit_cause["client"] = "none"
    /\ shared_secret["client"] = NoValue
    /\ hs_sent["client"] = 0
    /\ hs_sent["server"] = 8
    /\ broken

\* s is the first Len(s) elements of t.
IsPrefix(s, t) == Len(s) <= Len(t) /\ s = SubSeq(t, 1, Len(s))

\* The bytes of data from offset + 1 on, each XORed with the key byte of its
\* own stream offset.
StreamCipherFrom(data, keys, offset) ==
    [i \in 1..(Len(data) - offset) |-> XorByte(data[offset + i], keys[offset + i])]

\* C13 (stream consistency without framing): once the receiver q of a
\* direction runs its receive loop, its position is the number of bytes it has
\* read, what it has decrypted is the first bytes of what the sender p has
\* encrypted, under the same key bytes at the same stream offsets, however
\* the reads cut the stream; and while the connection has not failed the
\* bytes in flight are exactly the rest of the sender's stream, so that
\* received plaintext and the rest still to be read make up the sent
\* plaintext.
C13_StreamConsistency ==
    \A p \in Peers :
        rpc[Other(p)] # "not_spawned"
           => /\ recv_keystream_pos[Other(p)] = Len(recv_plain[Other(p)])
              /\ IsPrefix(recv_plain[Other(p)], sent_plain[p])
              /\ IsPrefix(recv_keys[Other(p)], send_keys[p])
              /\ Len(recv_keys[Other(p)]) = Len(recv_plain[Other(p)])
              /\ ~broken
                    => chan[p] = StreamCipherFrom(sent_plain[p], send_keys[p],
                                                  recv_keystream_pos[Other(p)])
              /\ (~broken /\ chan[p] = <<>>)
                    => recv_plain[Other(p)] = sent_plain[p]

\* The server sent "hi" then "A"; a read of the client cut "hi" after its
\* first byte, and the rest of "hi" is in flight together with "A".
C13_Witness ==
    /\ sent_plain["server"] = <<104, 105, 65>>
    /\ nwrites["server"] = 2
    /\ recv_plain["client"] = <<104>>
    /\ recv_keystream_pos["client"] = 1
    /\ Len(chan["server"]) = 2
    /\ ~broken

\* Two key traces agree at every index both have reached.
SameKeysSoFar(k1, k2) == \A i \in 1..Min(Len(k1), Len(k2)) : k1[i] = k2[i]

\* C14 (same keystream in both directions): the key byte applied to the i-th
\* byte the server sends equals the key byte applied to the i-th byte the
\* client sends, for every i both have reached; and each peer's receive trace
\* agrees with its own send trace in the same way.
C14_SameKeystreamBothWays ==
    /\ SameKeysSoFar(send_keys["server"], send_keys["client"])
    /\ \A p \in Peers : SameKeysSoFar(send_keys[p], recv_keys[p])

\* Both peers have sent "hi", under the same two key bytes, and the client
\* has decrypted the server's message with them.
C14_Witness ==
    /\ sent_plain["server"] = <<104, 105>>
    /\ sent_plain["client"] = <<104, 105>>
    /\ Len(send_keys["server"]) = 2
    /\ send_keys["client"] = send_keys["server"]
    /\ recv_keys["client"] = send_keys["client"]
    /\ chan["server"] = <<>>
    /\ chan["client"] # <<>>

\* The values a keystream byte can take.
KeystreamPeriod == 2 ^ 8

\* C15 (keystream period): for every seed and every index i, the byte at
\* index i + 256 equals the byte at index i; every byte after the first is
\* determined by the byte before it (low 8 bits of A * byte + C), and the
\* first by the low 8 bits of the seed.
C15_KeystreamPeriod ==
    mode = "period"
       => /\ \A i \in 1..(Len(out.o) - KeystreamPeriod) :
                out.o[i + KeystreamPeriod] = out.o[i]
          /\ \A i \in 1..(Len(out.o) - 1) :
                out.o[i + 1] = ((LCG_A % 256) * out.o[i] + LCG_C) % 256
          /\ Len(out.o) > 0
                => out.o[1] = ((LCG_A % 256) * LowByte(inp) + LCG_C) % 256

\* 256 + MaxPeriodTail bytes pulled from the generator of a seed with high
\* bits set: the bytes from index 257 on repeat those from index 1 on.
C15_Witness ==
    /\ mode = "period"
    /\ inp = <<255, 255, 255, 127, 0, 0, 0, 0>>
    /\ Len(out.o) = KeystreamPeriod + MaxPeriodTail
    /\ out.o[KeystreamPeriod + 1] = out.o[1]
    /\ out.o[KeystreamPeriod + MaxPeriodTail] = out.o[MaxPeriodTail]
    /\ out.o[2] # out.o[1]

====
